---- MODULE Spec2Model ----
(***************************************************************************)
(* A model of the TODO command-line program: the SQLite-backed store of    *)
(* src/src/main.rs (TodoStoreSqlite), the read-eval loop of main(), and    *)
(* the REST client of src/src/google_tasks.rs (GoogleTasks).               *)
(*                                                                         *)
(* Rust Strings are TLA+ strings, except the id of a TodoItem, which is a  *)
(* sequence of one-character strings so that i64::to_string and            *)
(* str::parse::<i64> can be computed character by character.               *)
(***************************************************************************)
EXTENDS Integers, Sequences, FiniteSets

VARIABLES conn, pc, last, out, res, call, resp, ret

vars == <<conn, pc, last, out, res, call, resp, ret>>

cliVars == <<conn, pc, last, out, res>>

remoteVars == <<call, resp, ret>>

(* The number of rows the runs insert: add is disabled once the            *)
(* AUTOINCREMENT counter has reached it.                                   *)
MaxId == 3

(***************************************************************************)
(* The words typed on the command line.                                    *)
(***************************************************************************)
Titles == {"a", "b"}

ContentWord == "x"

Commands == {"add", "complete", "remove", "list", "quit", "delete"}

(* The parameter lists that follow a command word: none, a title, a title *)
(* and one more word.                                                     *)
ParamLists ==
  {<<>>} \cup {<<t>> : t \in Titles} \cup {<<t, ContentWord>> : t \in Titles}

(* What shlex::split makes of a line: None (an unbalanced quote), or the   *)
(* words: an empty line, each command with each parameter list, and add    *)
(* with a content of two words.                                            *)
Lines ==
  {[parsed |-> TRUE, args |-> <<c>> \o p] : c \in Commands, p \in ParamLists}
    \cup {[parsed |-> TRUE, args |-> <<"add", t, ContentWord, ContentWord>>] :
            t \in Titles}
    \cup {[parsed |-> TRUE, args |-> <<>>], [parsed |-> FALSE, args |-> <<>>]}

(***************************************************************************)
(* SQL values of the nullable TEXT column content.                         *)
(***************************************************************************)
SqlText(s) == [null |-> FALSE, text |-> s]

SqlNull == [null |-> TRUE, text |-> ""]

(* statement.read::<String, _>(2).unwrap_or_default() *)
ReadContent(v) == IF v.null THEN "" ELSE v.text

(* The match on status_str of find_by_title and list_items. *)
StatusOf(status_str) ==
  CASE status_str = "Todo" -> "Todo"
    [] status_str = "InProgress" -> "InProgress"
    [] status_str = "Done" -> "Done"
    [] OTHER -> "Todo"

(***************************************************************************)
(* i64 <-> String, as id.to_string() and id.parse::<i64>() compute them.   *)
(* The ids of the model stay far below 2^63, so parse's overflow error is  *)
(* never met.                                                              *)
(***************************************************************************)
DigitChars == <<"0", "1", "2", "3", "4", "5", "6", "7", "8", "9">>

RECURSIVE to_string(_)
to_string(n) ==
  IF n < 0 THEN <<"-">> \o to_string(0 - n)
  ELSE IF n < 10 THEN <<DigitChars[n + 1]>>
  ELSE to_string(n \div 10) \o <<DigitChars[(n % 10) + 1]>>

IsDigit(c) == \E i \in 1..10 : DigitChars[i] = c

DigitVal(c) == (CHOOSE i \in 1..10 : DigitChars[i] = c) - 1

RECURSIVE DigitsVal(_)
DigitsVal(s) ==
  IF s = <<>> THEN 0
  ELSE 10 * DigitsVal(SubSeq(s, 1, Len(s) - 1)) + DigitVal(s[Len(s)])

(* An optional sign, then one or more ASCII digits; anything else is Err. *)
ParseI64(s) ==
  LET signed == s # <<>> /\ s[1] \in {"+", "-"}
      digits == IF signed THEN Tail(s) ELSE s
  IN  IF digits = <<>> \/ \E i \in 1..Len(digits) : ~IsDigit(digits[i])
      THEN [ok |-> FALSE, val |-> 0]
      ELSE [ok |-> TRUE,
            val |-> IF signed /\ s[1] = "-" THEN 0 - DigitsVal(digits)
                    ELSE DigitsVal(digits)]

(***************************************************************************)
(* TodoStoreSqlite.  conn is the sqlite connection: the rows of table      *)
(* todos in rowid order (the order of a table scan), the AUTOINCREMENT     *)
(* counter of sqlite_sequence, and the connection's change counter.        *)
(***************************************************************************)
EmptyDb == [todos |-> <<>>, seq |-> 0, changes |-> 0]

(* One row of a SELECT as the TodoItem both queries build from it. *)
RowItem(row) ==
  [id |-> to_string(row.id), title |-> row.title,
   content |-> ReadContent(row.content), status |-> StatusOf(row.status)]

RECURSIVE Count(_, _)
Count(rows, title) ==
  IF rows = <<>> THEN 0
  ELSE (IF Head(rows).title = title THEN 1 ELSE 0) + Count(Tail(rows), title)

NotTitled(rows, title) ==
  LET keep(row) == row.title # title IN SelectSeq(rows, keep)

Titled(rows, title) ==
  LET keep(row) == row.title = title IN SelectSeq(rows, keep)

(* add_item with the two bind indices exchanged. *)
add_item_swapped(db, title, content) ==
  [todos |-> Append(db.todos,
                    [id |-> db.seq + 1, title |-> content,
                     content |-> SqlText(title), status |-> "Todo"]),
   seq |-> db.seq + 1,
   changes |-> 1]

(* INSERT INTO todos (title, content, status) VALUES (?, ?, 'Todo') *)
add_item(db, title, content) ==
  [todos |-> Append(db.todos,
                    [id |-> db.seq + 1, title |-> title,
                     content |-> SqlText(content), status |-> "Todo"]),
   seq |-> db.seq + 1,
   changes |-> 1]

(* remove_item with the WHERE clause left out. *)
remove_item_everything(db, title) ==
  [db |-> [db EXCEPT !.todos = <<>>, !.changes = Len(db.todos)],
   result |-> "Ok"]

(* remove_item deleting the first match only (LIMIT 1). *)
remove_item_first(db, title) ==
  LET n == Count(db.todos, title)
      k == CHOOSE i \in 1..Len(db.todos) :
             db.todos[i].title = title /\ \A j \in 1..(i - 1) : db.todos[j].title # title
  IN  [db |-> IF n = 0 THEN [db EXCEPT !.changes = 0]
              ELSE [db EXCEPT !.todos = SubSeq(db.todos, 1, k - 1)
                                         \o SubSeq(db.todos, k + 1, Len(db.todos)),
                              !.changes = 1],
       result |-> "Ok"]

(* remove_item with the affected-row check complete_item has. *)
remove_item_checked(db, title) ==
  [db |-> [db EXCEPT !.todos = NotTitled(db.todos, title),
                     !.changes = Count(db.todos, title)],
   result |-> IF Count(db.todos, title) = 0 THEN "NotFound" ELSE "Ok"]

(* DELETE FROM todos WHERE title = ?, then Ok(()) whatever it deleted. *)
remove_item(db, title) ==
  [db |-> [db EXCEPT !.todos = NotTitled(db.todos, title),
                     !.changes = Count(db.todos, title)],
   result |-> "Ok"]

(* complete_item counting only the rows whose status the UPDATE altered. *)
complete_item_if_altered(db, id) ==
  LET id_num == ParseI64(id)
      hit(row) == row.id = id_num.val
      altered(row) == hit(row) /\ row.status # "Done"
      updated == [i \in 1..Len(db.todos) |->
                    IF hit(db.todos[i]) THEN [db.todos[i] EXCEPT !.status = "Done"]
                    ELSE db.todos[i]]
      n == Len(SelectSeq(db.todos, altered))
  IN  IF ~id_num.ok THEN [db |-> db, result |-> "NotFound"]
      ELSE [db |-> [db EXCEPT !.todos = updated, !.changes = n],
            result |-> IF n = 0 THEN "NotFound" ELSE "Ok"]

(* complete_item flipping the status: Done goes back to Todo. *)
complete_item_toggle(db, id) ==
  LET id_num == ParseI64(id)
      hit(row) == row.id = id_num.val
      updated == [i \in 1..Len(db.todos) |->
                    IF hit(db.todos[i])
                    THEN [db.todos[i] EXCEPT
                            !.status = IF @ = "Done" THEN "Todo" ELSE "Done"]
                    ELSE db.todos[i]]
      n == Len(SelectSeq(db.todos, hit))
  IN  IF ~id_num.ok THEN [db |-> db, result |-> "NotFound"]
      ELSE [db |-> [db EXCEPT !.todos = updated, !.changes = n],
            result |-> IF n = 0 THEN "NotFound" ELSE "Ok"]

(* UPDATE todos SET status = 'Done' WHERE id = ?, NotFound when the id does *)
(* not parse (before the statement runs) or change_count() is 0 after it.   *)
complete_item(db, id) ==
  LET id_num == ParseI64(id)
      hit(row) == row.id = id_num.val
      updated == [i \in 1..Len(db.todos) |->
                    IF hit(db.todos[i]) THEN [db.todos[i] EXCEPT !.status = "Done"]
                    ELSE db.todos[i]]
      n == Len(SelectSeq(db.todos, hit))
  IN  IF ~id_num.ok THEN [db |-> db, result |-> "NotFound"]
      ELSE [db |-> [db EXCEPT !.todos = updated, !.changes = n],
            result |-> IF n = 0 THEN "NotFound" ELSE "Ok"]

(* SELECT ... WHERE title = ?: the first row of the scan, as Some(item), *)
(* here <<item>>, or None, here <<>>.                                    *)
find_by_title(db, title) ==
  LET rows == Titled(db.todos, title)
  IN  IF rows = <<>> THEN <<>> ELSE <<RowItem(Head(rows))>>

(* list_items returning an empty Ok, as the remote backend does. *)
list_items_empty_ok(db) ==
  [ok |-> TRUE, err |-> "",
   items |-> [i \in 1..Len(db.todos) |-> RowItem(db.todos[i])]]

(* SELECT ... FROM todos: every row, or Err(NotFound) when there is none. *)
list_items(db) ==
  LET items == [i \in 1..Len(db.todos) |-> RowItem(db.todos[i])]
  IN  IF items = <<>> THEN [ok |-> FALSE, err |-> "NotFound", items |-> <<>>]
      ELSE [ok |-> TRUE, err |-> "", items |-> items]

(* TodoItem::summarize *)
summarize(item) ==
  LET checkbox == IF item.status = "Done" THEN "[X]" ELSE "[ ]"
  IN  checkbox \o ": " \o item.title \o ": " \o item.content

(***************************************************************************)
(* GoogleTasks, the REST client.  The service is outside the program: a    *)
(* call is modelled by the response it meets.  A JSON value is a record    *)
(* [t, v]: t its kind, v its content.  A body that is not JSON text (an    *)
(* empty body too) is the kind "garbage".                                  *)
(***************************************************************************)
JNull == [t |-> "null", v |-> {}]

JStr(s) == [t |-> "str", v |-> s]

JNum(n) == [t |-> "num", v |-> n]

JArr(elems) == [t |-> "arr", v |-> elems]

(* An object: its members as a set of <<name, value>> pairs. *)
JObj(members) == [t |-> "obj", v |-> members]

Garbage == [t |-> "garbage", v |-> {}]

Absent == [t |-> "absent", v |-> {}]

Member(obj, name) ==
  IF \E m \in obj.v : m[1] = name
  THEN (CHOOSE m \in obj.v : m[1] = name)[2]
  ELSE Absent

ErrorBody ==
  JObj({<<"error", JObj({<<"code", JNum(401)>>,
                         <<"message", JStr("Invalid Credentials")>>})>>})

TaskBody ==
  JObj({<<"id", JStr("t1")>>, <<"title", JStr("a")>>, <<"notes", JNull>>,
        <<"status", JStr("needsAction")>>,
        <<"due", JStr("2024-06-01T00:00:00Z")>>})

TaskListBody == JObj({<<"id", JStr("l1")>>, <<"title", JStr("My Rust Tasks")>>})

Bodies ==
  {Garbage, ErrorBody, JObj({}), TaskBody, TaskListBody,
   JObj({<<"id", JNum(7)>>}),
   JObj({<<"items", JArr(<<TaskBody>>)>>}),
   JObj({<<"items", JArr(<<TaskListBody, JObj({<<"id", JNum(7)>>})>>)>>}),
   JObj({<<"items", JStr("none")>>})}

Statuses == {200, 204, 304, 401, 404, 500}

(* send() failed: there is no response. *)
TransportError == [sent |-> FALSE, status |-> 0, body |-> Garbage]

Responses ==
  {TransportError}
    \cup {[sent |-> TRUE, status |-> st, body |-> b] : st \in Statuses, b \in Bodies}

Err == [ok |-> FALSE, val |-> <<>>]

Ok(val) == [ok |-> TRUE, val |-> val]

None == [some |-> FALSE, s |-> ""]

Some(s) == [some |-> TRUE, s |-> s]

(* An Option<String> field: a missing member and null are None, a string  *)
(* is Some, any other value is an error.  deserialize_due_as_string with  *)
(* #[serde(default)] does the same for due.                               *)
OptionString(json) ==
  CASE json.t \in {"absent", "null"} -> Ok(None)
    [] json.t = "str" -> Ok(Some(json.v))
    [] OTHER -> Err

deserialize_due_as_string(json) == OptionString(json)

(* #[derive(Deserialize)] struct TaskList, from a JSON object. *)
DeTaskList(json) ==
  LET id == OptionString(Member(json, "id"))
      title == OptionString(Member(json, "title"))
  IN  IF json.t = "obj" /\ id.ok /\ title.ok
      THEN Ok([id |-> id.val, title |-> title.val])
      ELSE Err

(* #[derive(Deserialize)] struct TaskItem, from a JSON object. *)
DeTaskItem(json) ==
  LET id == OptionString(Member(json, "id"))
      title == OptionString(Member(json, "title"))
      notes == OptionString(Member(json, "notes"))
      status == OptionString(Member(json, "status"))
      due == deserialize_due_as_string(Member(json, "due"))
  IN  IF json.t = "obj" /\ id.ok /\ title.ok /\ notes.ok /\ status.ok /\ due.ok
      THEN Ok([id |-> id.val, title |-> title.val, notes |-> notes.val,
               status |-> status.val, due |-> due.val])
      ELSE Err

(* A Vec<TaskList>: a JSON array whose every element deserializes. *)
DeTaskListVec(json) ==
  IF json.t = "arr" /\ \A i \in 1..Len(json.v) : DeTaskList(json.v[i]).ok
  THEN Ok([i \in 1..Len(json.v) |-> DeTaskList(json.v[i]).val])
  ELSE Err

(* A Vec<TaskItem>: a JSON array whose every element deserializes. *)
DeTaskItemVec(json) ==
  IF json.t = "arr" /\ \A i \in 1..Len(json.v) : DeTaskItem(json.v[i]).ok
  THEN Ok([i \in 1..Len(json.v) |-> DeTaskItem(json.v[i]).val])
  ELSE Err

(* struct TaskListsResponse { items: Vec<TaskList> }: items is required. *)
DeTaskListsResponse(json) ==
  IF json.t = "obj" THEN DeTaskListVec(Member(json, "items")) ELSE Err

(* struct TasksResponse { #[serde(default)] items: Vec<TaskItem> } *)
DeTasksResponse(json) ==
  IF json.t # "obj" THEN Err
  ELSE IF Member(json, "items").t = "absent" THEN Ok(<<>>)
  ELSE DeTaskItemVec(Member(json, "items"))

(* Response::error_for_status: an error for a 4xx or 5xx status only. *)
error_for_status(r) == IF r.status \in 400..599 THEN Err ELSE Ok(r)

list_tasklists(r) ==
  IF ~r.sent THEN Err ELSE DeTaskListsResponse(r.body)

create_tasklist(r) ==
  IF ~r.sent THEN Err ELSE DeTaskList(r.body)

list_tasks(r) ==
  IF ~r.sent THEN Err
  ELSE IF r.body.t = "garbage" THEN Err
  ELSE LET tasks_response == DeTasksResponse(r.body)
       IN  IF tasks_response.ok THEN Ok(tasks_response.val) ELSE Ok(<<>>)

create_task(r) ==
  IF ~r.sent THEN Err ELSE DeTaskItem(r.body)

delete_task(r) ==
  IF ~r.sent THEN Err
  ELSE IF error_for_status(r).ok THEN Ok(<<>>) ELSE Err

update_task(r) ==
  IF ~r.sent THEN Err ELSE DeTaskItem(r.body)

(***************************************************************************)
(* main(): the read-eval loop.  One action per arm of the match on the     *)
(* command word; each is one whole turn of the loop, from read_line to the *)
(* last println.  last is the line read, out what the turn printed, res    *)
(* the store call the turn ended with and what it returned.                *)
(***************************************************************************)
NoCall == [op |-> "none", result |-> "none", items |-> <<>>]

Returned(op, result, items) == [op |-> op, result |-> result, items |-> items]

(* shlex::split(..).unwrap_or_default() *)
Args(line) == IF line.parsed THEN line.args ELSE <<>>

(* params[1..].join(" ") *)
RECURSIVE Join(_)
Join(words) ==
  IF words = <<>> THEN ""
  ELSE IF Len(words) = 1 THEN words[1]
  ELSE words[1] \o " " \o Join(Tail(words))

Turn(line, db, printed, returned) ==
  /\ last' = line
  /\ conn' = db
  /\ out' = printed
  /\ res' = returned
  /\ pc' = "loop"
  /\ UNCHANGED remoteVars

Init ==
  /\ conn = EmptyDb
  /\ pc = "loop"
  /\ last = [parsed |-> TRUE, args |-> <<>>]
  /\ out = <<"TODO CLI">>
  /\ res = NoCall
  /\ call = "none"
  /\ resp = TransportError
  /\ ret = Err

NoCommand(line) ==
  /\ pc = "loop"
  /\ Args(line) = <<>>
  /\ Turn(line, conn, <<"No command given, please try again.">>, NoCall)

AddCommand(line) ==
  /\ pc = "loop"
  /\ Args(line) # <<>>
  /\ Head(Args(line)) = "add"
  /\ LET params == Tail(Args(line))
     IN  IF Len(params) < 2
         THEN Turn(line, conn, <<"Usage: add <title> <content>">>, NoCall)
         ELSE LET title == params[1]
                  content == Join(Tail(params))
              IN  /\ conn.seq < MaxId
                  /\ Turn(line, add_item(conn, title, content),
                          <<"Added: " \o title>>,
                          Returned("add_item", "Unit", <<>>))

CompleteCommand(line) ==
  /\ pc = "loop"
  /\ Args(line) # <<>>
  /\ Head(Args(line)) = "complete"
  /\ LET params == Tail(Args(line))
     IN  IF Len(params) # 1
         THEN Turn(line, conn,
                   <<"Usage: complete \"<title to TodoItem for completion>\"">>,
                   NoCall)
         ELSE LET found_items == find_by_title(conn, params[1])
              IN  IF found_items # <<>>
                  THEN LET result == complete_item(conn, found_items[1].id)
                       IN  Turn(line, result.db,
                                IF result.result = "Ok"
                                THEN <<"Completed Succesfully">>
                                ELSE <<"Failed to complete item: " \o result.result>>,
                                Returned("complete_item", result.result, <<>>))
                  ELSE Turn(line, conn, <<>>,
                            Returned("find_by_title", "None", <<>>))

RemoveCommand(line) ==
  /\ pc = "loop"
  /\ Args(line) # <<>>
  /\ Head(Args(line)) = "remove"
  /\ LET params == Tail(Args(line))
     IN  IF Len(params) < 1
         THEN Turn(line, conn, <<"Usage: remove <title> ">>, NoCall)
         ELSE LET result == remove_item(conn, params[1])
              IN  Turn(line, result.db,
                       IF result.result = "Ok" THEN <<"Removed Succesfully">>
                       ELSE <<"Error: " \o result.result>>,
                       Returned("remove_item", result.result, <<>>))

ListCommand(line) ==
  /\ pc = "loop"
  /\ Args(line) # <<>>
  /\ Head(Args(line)) = "list"
  /\ LET params == Tail(Args(line))
     IN  IF Len(params) > 1
         THEN Turn(line, conn, <<"Usage: list ">>, NoCall)
         ELSE LET result == list_items(conn)
              IN  IF result.ok
                  THEN Turn(line, conn,
                            <<"--- TODO List ---">>
                              \o [i \in 1..Len(result.items) |->
                                    "- " \o summarize(result.items[i])]
                              \o <<"-----------------">>,
                            Returned("list_items", "Ok", result.items))
                  ELSE Turn(line, conn,
                            IF result.err = "NotFound"
                            THEN <<"Your TODO list is empty. Use 'add' to create one.">>
                            ELSE <<"A storage error occurred.">>,
                            Returned("list_items", result.err, <<>>))

QuitCommand(line) ==
  /\ pc = "loop"
  /\ Args(line) # <<>>
  /\ Head(Args(line)) = "quit"
  /\ last' = line
  /\ out' = <<"Quit">>
  /\ res' = NoCall
  /\ pc' = "exited"
  /\ UNCHANGED <<conn, remoteVars>>

UnknownCommand(line) ==
  /\ pc = "loop"
  /\ Args(line) # <<>>
  /\ Head(Args(line)) \notin {"add", "complete", "remove", "list", "quit"}
  /\ Turn(line, conn, <<"Unknown command">>, NoCall)

Next ==
  \E line \in Lines :
    \/ NoCommand(line)
    \/ AddCommand(line)
    \/ CompleteCommand(line)
    \/ RemoveCommand(line)
    \/ ListCommand(line)
    \/ QuitCommand(line)
    \/ UnknownCommand(line)

Spec == Init /\ [][Next]_vars

(* One action per method of GoogleTasks: the call, the response it met   *)
(* and what it returned to its caller.                                    *)
ListTasklists(r) ==
  /\ call' = "list_tasklists"
  /\ resp' = r
  /\ ret' = list_tasklists(r)
  /\ UNCHANGED cliVars

CreateTasklist(r) ==
  /\ call' = "create_tasklist"
  /\ resp' = r
  /\ ret' = create_tasklist(r)
  /\ UNCHANGED cliVars

ListTasks(r) ==
  /\ call' = "list_tasks"
  /\ resp' = r
  /\ ret' = list_tasks(r)
  /\ UNCHANGED cliVars

CreateTask(r) ==
  /\ call' = "create_task"
  /\ resp' = r
  /\ ret' = create_task(r)
  /\ UNCHANGED cliVars

DeleteTask(r) ==
  /\ call' = "delete_task"
  /\ resp' = r
  /\ ret' = delete_task(r)
  /\ UNCHANGED cliVars

UpdateTask(r) ==
  /\ call' = "update_task"
  /\ resp' = r
  /\ ret' = update_task(r)
  /\ UNCHANGED cliVars

RemoteNext ==
  \E r \in Responses :
    \/ ListTasklists(r)
    \/ CreateTasklist(r)
    \/ ListTasks(r)
    \/ CreateTask(r)
    \/ DeleteTask(r)
    \/ UpdateTask(r)

RemoteSpec == Init /\ [][RemoteNext]_vars

(***************************************************************************)
(* Vocabulary of the properties: the command of a turn, read from the line *)
(* the turn recorded.                                                      *)
(***************************************************************************)
Cmd(line) == IF Args(line) = <<>> THEN "" ELSE Head(Args(line))

Params(line) == IF Args(line) = <<>> THEN <<>> ELSE Tail(Args(line))

(* The turn ran add_item, complete's lookup, remove_item or list_items. *)
Adds(line) == Cmd(line) = "add" /\ Len(Params(line)) >= 2

Completes(line, title) ==
  Cmd(line) = "complete" /\ Params(line) = <<title>>

Removes(line, title) ==
  Cmd(line) = "remove" /\ Len(Params(line)) >= 1 /\ Params(line)[1] = title

Lists(line) == Cmd(line) = "list" /\ Len(Params(line)) <= 1

HasTitle(db, title) == \E i \in 1..Len(db.todos) : db.todos[i].title = title

FirstIndex(rows, title) ==
  CHOOSE i \in 1..Len(rows) :
    rows[i].title = title /\ \A j \in 1..(i - 1) : rows[j].title # title

Listed(db) == list_items(db).items

ItemsOf(db) == {Listed(db)[i] : i \in 1..Len(Listed(db))}

(***************************************************************************)
(* C1: after add <title> <content> the list holds one more item, with that *)
(* title and content and status Todo, after the items it held; a later     *)
(* list succeeds and shows the item as long as no remove names its title,  *)
(* and shows it Todo as long as no complete names its title.               *)
(***************************************************************************)
C1_Added ==
  Adds(last') =>
    LET title == Params(last')[1]
        content == Join(Tail(Params(last')))
        before == Listed(conn)
        after == Listed(conn')
    IN  /\ list_items(conn').ok
        /\ Len(after) = Len(before) + 1
        /\ SubSeq(after, 1, Len(before)) = before
        /\ after[Len(after)].title = title
        /\ after[Len(after)].content = content
        /\ after[Len(after)].status = "Todo"
        /\ \A i \in 1..Len(before) : before[i].id # after[Len(after)].id

C1_Kept ==
  LET before == Listed(conn)
      after == Listed(conn')
  IN  \A i \in 1..Len(before) :
        ~Removes(last', before[i].title) =>
          \E j \in 1..Len(after) :
            /\ after[j].id = before[i].id
            /\ after[j].title = before[i].title
            /\ after[j].content = before[i].content
            /\ (before[i].status = "Todo" /\ ~Completes(last', before[i].title)
                  => after[j].status = "Todo")

C1_Shown ==
  Lists(last') /\ conn.todos # <<>> =>
    /\ res'.result = "Ok"
    /\ res'.items = Listed(conn)

(* C1: every turn of the loop adds, keeps and lists items as stated above: *)
(* an added item is listed with its title and content, Todo, until a       *)
(* remove or a complete names its title.                                   *)
C1_AddThenList == [][C1_Added /\ C1_Kept /\ C1_Shown]_vars

(* A list that shows two items of one title, the later one still Todo. *)
C1_Witness ==
  /\ Lists(last)
  /\ res.result = "Ok"
  /\ \E i, j \in 1..Len(res.items) :
       /\ i < j
       /\ res.items[i].title = res.items[j].title
       /\ res.items[i].status = "Done"
       /\ res.items[j].status = "Todo"
       /\ res.items[j].content = "x x"

(***************************************************************************)
(* C2: complete <title>, when an item has the title, reports success and   *)
(* sets the first such item (table order) to Done, as list and             *)
(* find_by_title then show, and changes nothing else; that holds whether   *)
(* or not the item was Done already, and completing again from the state   *)
(* reached succeeds and changes no row.                                    *)
(***************************************************************************)
C2_Completed ==
  \A title \in Titles :
    Completes(last', title) /\ HasTitle(conn, title) =>
      LET k == FirstIndex(conn.todos, title)
      IN  /\ res' = Returned("complete_item", "Ok", <<>>)
          /\ out' = <<"Completed Succesfully">>
          /\ conn'.todos = [conn.todos EXCEPT ![k].status = "Done"]
          /\ find_by_title(conn', title)[1].status = "Done"
          /\ Listed(conn')[k].status = "Done"
          /\ \A i \in 1..Len(conn.todos) : i # k => Listed(conn')[i] = Listed(conn)[i]

C2_Again ==
  \A title \in Titles :
    Completes(last', title) /\ res'.result = "Ok" =>
      LET found == find_by_title(conn', title)
          again == complete_item(conn', found[1].id)
      IN  /\ found # <<>>
          /\ found[1].status = "Done"
          /\ again.result = "Ok"
          /\ again.db.todos = conn'.todos

(* C2: every complete of a title some item has sets the first such item to *)
(* Done, succeeds, changes nothing else, and can be repeated.              *)
C2_CompleteFirst == [][C2_Completed /\ C2_Again]_vars

(* complete has succeeded on a title two items share: the first is Done, *)
(* the second still Todo.                                                *)
C2_Witness ==
  \E title \in Titles :
    /\ Completes(last, title)
    /\ res.result = "Ok"
    /\ Len(Titled(conn.todos, title)) >= 2
    /\ Titled(conn.todos, title)[1].status = "Done"
    /\ Titled(conn.todos, title)[2].status = "Todo"

(***************************************************************************)
(* C3: complete <title>, when no item has the title, reports NotFound and  *)
(* leaves the table as it was.                                             *)
(***************************************************************************)
C3_Reported ==
  \A title \in Titles :
    Completes(last', title) /\ ~HasTitle(conn, title) =>
      /\ res'.result = "NotFound"
      /\ conn'.todos = conn.todos

(* C3: every complete of a title no item has reports NotFound and changes *)
(* no row.                                                                *)
C3_CompleteMissing == [][C3_Reported]_vars

(***************************************************************************)
(* C4: remove <title>, when an item has the title, returns Ok; afterwards  *)
(* neither list nor find_by_title shows an item of that title, the items   *)
(* of other titles are as they were, and until an add of that title no     *)
(* turn brings the title back; a row an add inserts has an id no row had   *)
(* before.                                                                 *)
(***************************************************************************)
C4_Removed ==
  \A title \in Titles :
    Removes(last', title) /\ HasTitle(conn, title) =>
      /\ res' = Returned("remove_item", "Ok", <<>>)
      /\ out' = <<"Removed Succesfully">>
      /\ find_by_title(conn', title) = <<>>
      /\ \A item \in ItemsOf(conn') : item.title # title
      /\ NotTitled(conn'.todos, title) = NotTitled(conn.todos, title)

C4_StaysRemoved ==
  \A title \in Titles :
    /\ ~HasTitle(conn, title) /\ ~(Adds(last') /\ Params(last')[1] = title)
         => ~HasTitle(conn', title)
    /\ \A i \in 1..Len(conn'.todos) :
         \/ \E j \in 1..Len(conn.todos) : conn.todos[j].id = conn'.todos[i].id
         \/ conn'.todos[i].id > conn.seq
    /\ \A i \in 1..Len(conn'.todos) : conn'.todos[i].id <= conn'.seq

(* C4: every remove of a title some item has returns Ok and the title is *)
(* gone from list and find_by_title until it is added again.             *)
C4_RemoveExisting == [][C4_Removed /\ C4_StaysRemoved]_vars

(* remove has deleted a row and left rows of the other title. *)
C4_Witness ==
  \E title \in Titles :
    /\ Removes(last, title)
    /\ res.result = "Ok"
    /\ conn.changes = 1
    /\ Len(conn.todos) = 2
    /\ ~HasTitle(conn, title)

(***************************************************************************)
(* C5: list_items returns Err(NotFound) exactly when the table has no row, *)
(* otherwise Ok with one item per row, in table order; it never returns Ok *)
(* with no item and leaves the connection as it was.                       *)
(***************************************************************************)
C5_Listed ==
  Lists(last') =>
    /\ res'.op = "list_items"
    /\ res'.result \in {"Ok", "NotFound"}
    /\ res'.result = "NotFound" <=> conn.todos = <<>>
    /\ res'.result = "Ok" => res'.items # <<>>
    /\ res'.result = "NotFound" =>
         out' = <<"Your TODO list is empty. Use 'add' to create one.">>
    /\ conn.todos # <<>> =>
         /\ Len(res'.items) = Len(conn.todos)
         /\ \A i \in 1..Len(conn.todos) :
              /\ res'.items[i].id = to_string(conn.todos[i].id)
              /\ res'.items[i].title = conn.todos[i].title
              /\ res'.items[i].content = conn.todos[i].content.text
              /\ res'.items[i].status = conn.todos[i].status
    /\ conn' = conn

(* C5: every list_items returns NotFound exactly on the empty table, else *)
(* Ok with all the rows, and changes nothing.                             *)
C5_ListEmptyIsNotFound == [][C5_Listed]_vars

(* list answers NotFound after every item added has been removed. *)
C5_Witness ==
  /\ Lists(last)
  /\ res.result = "NotFound"
  /\ conn.seq >= 2
  /\ conn.todos = <<>>

(***************************************************************************)
(* C6, as stated: when several items share the title, remove <title>       *)
(* deletes only the first of them and the others stay.                     *)
(***************************************************************************)
C6_FirstOnly ==
  \A title \in Titles :
    Removes(last', title) /\ Count(conn.todos, title) >= 2 =>
      LET k == FirstIndex(conn.todos, title)
      IN  conn'.todos =
            SubSeq(conn.todos, 1, k - 1) \o SubSeq(conn.todos, k + 1, Len(conn.todos))

(* C6 as stated: every remove of a title several items share deletes the *)
(* first of them only.                                                   *)
C6_RemoveFirstOnly == [][C6_FirstOnly]_vars

(***************************************************************************)
(* C6, amended: when several items share the title, remove <title> deletes *)
(* every one of them (the statement counts them all as changed) and none   *)
(* stays listed; the items of other titles stay, in their order.           *)
(***************************************************************************)
C6_All ==
  \A title \in Titles :
    Removes(last', title) /\ Count(conn.todos, title) >= 2 =>
      /\ Count(conn'.todos, title) = 0
      /\ conn'.changes = Count(conn.todos, title)
      /\ Len(conn'.todos) = Len(conn.todos) - Count(conn.todos, title)
      /\ \A item \in ItemsOf(conn) : item.title # title => item \in ItemsOf(conn')
      /\ res'.result = "Ok"

(* C6 amended: every remove of a title several items share deletes all of *)
(* them.                                                                  *)
C6_RemoveAll == [][C6_All]_vars

(* remove has deleted two rows at once and a row of the other title stays. *)
C6_Witness ==
  \E title \in Titles :
    /\ Removes(last, title)
    /\ conn.changes >= 2
    /\ conn.todos # <<>>

(***************************************************************************)
(* C7: remove <title>, when no item has the title, returns Ok all the same *)
(* and leaves the rows and the id counter as they were.                    *)
(***************************************************************************)
C7_Nothing ==
  \A title \in Titles :
    Removes(last', title) /\ ~HasTitle(conn, title) =>
      /\ res' = Returned("remove_item", "Ok", <<>>)
      /\ out' = <<"Removed Succesfully">>
      /\ conn'.todos = conn.todos
      /\ conn'.seq = conn.seq

(* C7: every remove of a title no item has returns Ok and changes no row. *)
C7_RemoveMissingIsOk == [][C7_Nothing]_vars

(* remove has returned Ok having deleted nothing from a table with rows. *)
C7_Witness ==
  \E title \in Titles :
    /\ Removes(last, title)
    /\ res.result = "Ok"
    /\ conn.changes = 0
    /\ conn.todos # <<>>

(***************************************************************************)
(* C8: the loop ends only on quit; every other line prints a message and   *)
(* the loop reads on; a line that is empty, names no command or has the    *)
(* wrong number of arguments leaves the store as it was.                   *)
(***************************************************************************)
Rejected(line) ==
  \/ Cmd(line) \notin {"add", "complete", "remove", "list", "quit"}
  \/ Cmd(line) = "add" /\ Len(Params(line)) < 2
  \/ Cmd(line) = "complete" /\ Len(Params(line)) # 1
  \/ Cmd(line) = "remove" /\ Len(Params(line)) < 1
  \/ Cmd(line) = "list" /\ Len(Params(line)) > 1

C8_Turn ==
  /\ pc' = "exited" => Cmd(last') = "quit"
  /\ Cmd(last') # "quit" => pc' = "loop" /\ out' # <<>>
  /\ Rejected(last') => conn' = conn

(* C8: every turn but quit prints a message and stays in the loop, and a *)
(* rejected line changes nothing.                                        *)
C8_LoopEndsOnlyOnQuit == [][C8_Turn]_vars

(***************************************************************************)
(* C9: a call of the client returns Err whenever the request could not be  *)
(* sent or the response's status is not 2xx.                               *)
(***************************************************************************)
C9_NonSuccessIsErr ==
  call # "none" /\ (~resp.sent \/ resp.status \notin 200..299) => ~ret.ok

(***************************************************************************)
(* C10: from the empty store, every row's status is Todo or Done, never    *)
(* InProgress; a turn changes a row's status only to Done, so a row that   *)
(* is Done stays Done as long as it is in the table.                       *)
(***************************************************************************)
C10_TodoOrDone ==
  /\ \A i \in 1..Len(conn'.todos) : conn'.todos[i].status \in {"Todo", "Done"}
  /\ \A i \in 1..Len(conn'.todos) : Listed(conn')[i].status \in {"Todo", "Done"}

C10_OnlyToDone ==
  \A i \in 1..Len(conn.todos), j \in 1..Len(conn'.todos) :
    conn.todos[i].id = conn'.todos[j].id =>
      /\ conn'.todos[j].status \in {conn.todos[i].status, "Done"}
      /\ conn.todos[i].status = "Done" => conn'.todos[j].status = "Done"

(* C10: after every turn each status is Todo or Done, and no turn takes a *)
(* row from Done back to Todo.                                            *)
C10_StatusOnlyAdvances == [][C10_TodoOrDone /\ C10_OnlyToDone]_vars

(* A Done row and a Todo row are left after a remove deleted another row: *)
(* the Done row has stayed Done through that turn.                        *)
C10_Witness ==
  /\ Cmd(last) = "remove"
  /\ conn.changes = 1
  /\ \E i, j \in 1..Len(conn.todos) :
       /\ conn.todos[i].status = "Done"
       /\ conn.todos[j].status = "Todo"

====
